---- MODULE Spec2Model ----
(***************************************************************************)
(* Model of the record-extraction engine of gitlab-issues-from-file        *)
(* (src/src/issuefile.rs): FileParser::get_issues and the CSV and JSON     *)
(* paths behind it.                                                        *)
(*                                                                         *)
(* Strings are sequences of one-character strings, so that to_lowercase,   *)
(* trim and format! are computed character by character.  Option<T> is a   *)
(* record [some |-> FALSE] or [some |-> TRUE, v |-> value].                *)
(***************************************************************************)
EXTENDS Integers, Sequences, FiniteSets, TLC

VARIABLES args, parser, file, pc, reader, all_headers, issues, result, lookups,
          prev, calls

vars == <<args, parser, file, pc, reader, all_headers, issues, result, lookups,
          prev, calls>>

(***************************************************************************)
(* Bounds of the explored inputs.                                          *)
(***************************************************************************)
MaxRows == 3        \* records in a CSV file, header row included
MaxCols == 2        \* fields in a CSV record
MaxEntries == 2     \* key/value entries in a JSON document
MaxItems == 2       \* elements of a JSON root array
MaxRepeats == 1     \* further calls of get_issues on the same parser

\* configured column indexes: every column of the widest record, and one beyond
MaxIndex == MaxCols

(***************************************************************************)
(* Option<T>                                                               *)
(***************************************************************************)
None == [some |-> FALSE]
Some(x) == [some |-> TRUE, v |-> x]

(***************************************************************************)
(* String helpers                                                          *)
(***************************************************************************)
LowerChar(c) ==
    CASE c = "T" -> "t"
      [] c = "D" -> "d"
      [] c = "C" -> "c"
      [] c = "S" -> "s"
      [] c = "V" -> "v"
      [] OTHER -> c

to_lowercase(s) == [i \in 1..Len(s) |-> LowerChar(s[i])]

IsSpace(c) == c \in {" ", "\n", "\t"}

RECURSIVE TrimStart(_)
TrimStart(s) ==
    IF s = <<>> THEN s
    ELSE IF IsSpace(Head(s)) THEN TrimStart(Tail(s)) ELSE s

RECURSIVE TrimEnd(_)
TrimEnd(s) ==
    IF s = <<>> THEN s
    ELSE IF IsSpace(s[Len(s)]) THEN TrimEnd(SubSeq(s, 1, Len(s) - 1)) ELSE s

trim(s) == TrimEnd(TrimStart(s))

Digit(d) ==
    CASE d = 0 -> "0" [] d = 1 -> "1" [] d = 2 -> "2" [] d = 3 -> "3"
      [] d = 4 -> "4" [] d = 5 -> "5" [] d = 6 -> "6" [] d = 7 -> "7"
      [] d = 8 -> "8" [] d = 9 -> "9"

RECURSIVE UsizeToString(_)
UsizeToString(n) ==
    IF n < 10 THEN <<Digit(n)>>
    ELSE UsizeToString(n \div 10) \o <<Digit(n % 10)>>


(***************************************************************************)
(* Input alphabets.  Header names and configured keys differ in case and   *)
(* in surrounding whitespace; data cells are distinct per position, since  *)
(* the code only copies them.                                              *)
(***************************************************************************)
HeaderNames == {<<"T">>, <<" ", "d">>}
TitleKeys == {<<"t">>}
DescriptionKeys == {<<" ", "D">>}
Prefixes == {<<"p", ":">>}

RowLetter(r) ==
    CASE r = 1 -> "a" [] r = 2 -> "b" [] r = 3 -> "c" [] r = 4 -> "e" [] OTHER -> "z"
Cell(r, c) == <<RowLetter(r), Digit(c)>>

OptTitleKeys == {None} \cup {Some(k) : k \in TitleKeys}
OptDescriptionKeys == {None} \cup {Some(k) : k \in DescriptionKeys}
OptIndexes == {None} \cup {Some(i) : i \in 0..MaxIndex}
OptPrefixes == {None} \cup {Some(p) : p \in Prefixes}

\* description keys of the JSON path: one of them also matches the title key
JsonDescriptionKeys == DescriptionKeys \cup {<<"T">>}
OptJsonDescriptionKeys == {None} \cup {Some(k) : k \in JsonDescriptionKeys}

\* All sequences over S of length lo..hi
SeqsOf(S, lo, hi) == UNION {[1..n -> S] : n \in lo..hi}

(***************************************************************************)
(* A CSV file as the csv crate tokenises it: a sequence of records, each   *)
(* either readable (ok, with its fields) or not (invalid UTF-8).           *)
(***************************************************************************)
BadRow == [ok |-> FALSE, fields |-> <<>>]
GoodRow(fs) == [ok |-> TRUE, fields |-> fs]

HeaderRows == {BadRow} \cup {GoodRow(fs) : fs \in SeqsOf(HeaderNames, 1, MaxCols)}

\* data row number r (1-based position in the file) with n fields; n = 0 is unreadable
DataRow(r, n) == IF n = 0 THEN BadRow ELSE GoodRow([c \in 1..n |-> Cell(r, c - 1)])

DataFiles(first, n) ==
    {[r \in 1..n |-> DataRow(first + r - 1, shape[r])] : shape \in [1..n -> 0..MaxCols]}

CsvFilesWithHeader ==
    {<<>>} \cup
    UNION {{<<h>> \o d : d \in DataFiles(2, n)} : h \in HeaderRows, n \in 0..(MaxRows - 1)}

CsvFilesNoHeader == UNION {DataFiles(1, n) : n \in 0..MaxRows}


(***************************************************************************)
(* Result<Vec<IssueFromFile>, String>, plus the two outcomes that are not  *)
(* a return value: none yet, and a panic (unwrap on None or on Err).       *)
(***************************************************************************)
NoResult == [kind |-> "none", issues |-> <<>>, msg |-> "", name |-> None]
Ok(is) == [kind |-> "ok", issues |-> is, msg |-> "", name |-> None]
Err(m) == [kind |-> "err", issues |-> <<>>, msg |-> m, name |-> None]
ErrName(m, n) == [kind |-> "err", issues |-> <<>>, msg |-> m, name |-> Some(n)]
Panic == [kind |-> "panic", issues |-> <<>>, msg |-> "", name |-> None]

IssueFromFile(t, d) == [title |-> t, description |-> d]

(***************************************************************************)
(* csv::Reader, built with has_headers(!no_header) and flexible = false    *)
(* (the ReaderBuilder default).                                            *)
(***************************************************************************)
\* reader.headers(): the first record of the file, an empty record for an
\* empty file; not ok when the first record is not valid UTF-8
ReaderHeaders(f) == IF f = <<>> THEN GoodRow(<<>>) ELSE f[1]

\* variant: the first record is always consumed as the header
RecordPositionAfterHeader(no_header, k) == k + 1

\* position in the file of the k-th record yielded by reader.records() (k from 1)
RecordPosition(no_header, k) == IF no_header THEN k ELSE k + 1

\* one item of reader.records(): Err for an unreadable record and for a record
\* whose field count differs from the first record's
ReadRecord(f, i) ==
    IF ~f[i].ok THEN BadRow
    ELSE IF Len(f[i].fields) # Len(f[1].fields) THEN BadRow
    ELSE f[i]

(***************************************************************************)
(* csv_to_issues, lines 76-152: header resolution and bounds check         *)
(***************************************************************************)
MinOf(S) == CHOOSE x \in S : \A y \in S : x <= y
MaxOf(S) == CHOOSE x \in S : \A y \in S : x >= y

\* variant: the position of the last matching entry
PositionLast(headers, key) ==
    LET m == {i \in 1..Len(headers) : to_lowercase(headers[i]) = to_lowercase(key)}
    IN  IF m = {} THEN None ELSE Some(MaxOf(m) - 1)

\* headers.iter().position(|x| x.to_lowercase() == key.to_lowercase())
Position(headers, key) ==
    LET m == {i \in 1..Len(headers) : to_lowercase(headers[i]) = to_lowercase(key)}
    IN  IF m = {} THEN None ELSE Some(MinOf(m) - 1)

\* lines 84-95: the value of title_column_index after the lookup
ResolveTitleIndex(p, headers) ==
    IF p.title_key.some
    THEN IF Position(headers, p.title_key.v).some
         THEN Position(headers, p.title_key.v)
         ELSE p.title_column_index
    ELSE p.title_column_index

\* variant: the description name is resolved in combine mode too
ResolveDescriptionIndexAlways(p, headers) ==
    IF p.description_key.some
    THEN IF Position(headers, p.description_key.v).some
         THEN Position(headers, p.description_key.v)
         ELSE p.description_column_index
    ELSE p.description_column_index

\* lines 110-127: the value of description_column_index after the lookup
ResolveDescriptionIndex(p, headers) ==
    IF p.description_key.some /\ ~p.combine_remaining
    THEN IF Position(headers, p.description_key.v).some
         THEN Position(headers, p.description_key.v)
         ELSE p.description_column_index
    ELSE p.description_column_index

\* lines 142-152: bounds check of both indexes against reader.headers().len()
CheckBounds(p, f) ==
    IF ~p.title_column_index.some THEN Panic
    ELSE IF ~ReaderHeaders(f).ok THEN Panic
    ELSE IF p.title_column_index.v >= Len(ReaderHeaders(f).fields)
         THEN Err("title_column_index is out of bounds")
    ELSE IF p.description_column_index.some
            /\ p.description_column_index.v >= Len(ReaderHeaders(f).fields)
         THEN Err("description_column_index is out of bounds")
    ELSE NoResult

\* variant: names are looked up in the first record also without a header
ResolveColumnsInFirstRecord(p, f) ==
    IF ~ReaderHeaders(f).ok
    THEN [p |-> p, ah |-> <<>>, lk |-> {}, res |-> Err("Could not read headers")]
    ELSE
      LET hs == ReaderHeaders(f).fields
          p1 == [p EXCEPT !.title_column_index = ResolveTitleIndex(p, hs)]
          lk1 == IF p.title_key.some THEN {"title"} ELSE {}
          ah == IF p.combine_remaining THEN hs ELSE <<>>
          p2 == [p1 EXCEPT !.description_column_index = ResolveDescriptionIndex(p1, hs)]
          lk2 == IF p.description_key.some /\ ~p.combine_remaining
                 THEN lk1 \cup {"description"} ELSE lk1
      IN  IF p.title_key.some /\ ~p1.title_column_index.some
          THEN [p |-> p1, ah |-> <<>>, lk |-> lk1,
                res |-> ErrName("Could not find column with name", p.title_key.v)]
          ELSE IF p.description_key.some /\ ~p.combine_remaining
                  /\ ~p2.description_column_index.some
          THEN [p |-> p2, ah |-> ah, lk |-> lk2,
                res |-> ErrName("Could not find column with name", p.description_key.v)]
          ELSE [p |-> p2, ah |-> ah, lk |-> lk2, res |-> CheckBounds(p2, f)]

\* lines 76-152 as a whole: the parser fields, all_headers, the name lookups
\* performed and the early result (NoResult when the records loop is entered)
ResolveColumns(p, f) ==
    IF p.no_header
    THEN [p |-> p, ah |-> <<>>, lk |-> {}, res |-> CheckBounds(p, f)]
    ELSE IF ~ReaderHeaders(f).ok
    THEN [p |-> p, ah |-> <<>>, lk |-> {}, res |-> Err("Could not read headers")]
    ELSE
      LET hs == ReaderHeaders(f).fields
          p1 == [p EXCEPT !.title_column_index = ResolveTitleIndex(p, hs)]
          lk1 == IF p.title_key.some THEN {"title"} ELSE {}
          ah == IF p.combine_remaining THEN hs ELSE <<>>
          p2 == [p1 EXCEPT !.description_column_index = ResolveDescriptionIndex(p1, hs)]
          lk2 == IF p.description_key.some /\ ~p.combine_remaining
                 THEN lk1 \cup {"description"} ELSE lk1
      IN  IF p.title_key.some /\ ~p1.title_column_index.some
          THEN [p |-> p1, ah |-> <<>>, lk |-> lk1,
                res |-> ErrName("Could not find column with name", p.title_key.v)]
          ELSE IF p.description_key.some /\ ~p.combine_remaining
                  /\ ~p2.description_column_index.some
          THEN [p |-> p2, ah |-> ah, lk |-> lk2,
                res |-> ErrName("Could not find column with name", p.description_key.v)]
          ELSE [p |-> p2, ah |-> ah, lk |-> lk2, res |-> CheckBounds(p2, f)]


(***************************************************************************)
(* csv_to_issues, lines 157-208: one iteration of the records loop         *)
(***************************************************************************)
\* variant: columns numbered from one
ColumnKeyOneBased(p, ah, i) ==
    IF p.no_header
    THEN <<"C", "o", "l", "u", "m", "n", " ">> \o UsizeToString(i + 1)
    ELSE ah[i + 1]

\* lines 179-182: the label of column i (zero-based)
ColumnKey(p, ah, i) ==
    IF p.no_header
    THEN <<"C", "o", "l", "u", "m", "n", " ">> \o UsizeToString(i)
    ELSE ah[i + 1]

\* lines 175-189: fragments of the fields from column i (zero-based) on
RECURSIVE CombineFrom(_, _, _, _)
CombineFrom(p, ah, fields, i) ==
    IF i >= Len(fields) THEN <<>>
    ELSE IF i = p.title_column_index.v THEN CombineFrom(p, ah, fields, i + 1)
    ELSE trim(ColumnKey(p, ah, i)) \o <<":", " ">> \o fields[i + 1] \o <<"\n", "\n">>
         \o CombineFrom(p, ah, fields, i + 1)

\* variant: no description when nothing was combined
CombineRemainingOrNone(p, ah, fields) ==
    IF CombineFrom(p, ah, fields, 0) = <<>> THEN None
    ELSE Some(CombineFrom(p, ah, fields, 0))

\* lines 174-190
CombineRemaining(p, ah, fields) == Some(CombineFrom(p, ah, fields, 0))

\* lines 191-197: Err is modelled as the absence of a description with ok = FALSE
DescriptionFromColumn(p, fields) ==
    IF p.description_column_index.v < Len(fields)
    THEN [ok |-> TRUE, d |-> Some(fields[p.description_column_index.v + 1])]
    ELSE [ok |-> FALSE, d |-> None]

\* lines 201-204
PrependTitle(p, title) ==
    IF p.prepend_title.some THEN p.prepend_title.v \o <<" ">> \o title ELSE title

\* lines 158-207: the outcome of one record: an early result, or the issue pushed
RecordToIssue(p, ah, rec) ==
    IF ~rec.ok THEN [res |-> Err("Could not read record"), issue |-> None]
    ELSE IF p.title_column_index.v >= Len(rec.fields)
    THEN [res |-> Err("Could not get title"), issue |-> None]
    ELSE IF p.combine_remaining
    THEN IF ~p.no_header
            /\ \E i \in 0..(Len(rec.fields) - 1) : i # p.title_column_index.v /\ i >= Len(ah)
         THEN [res |-> Panic, issue |-> None]
         ELSE [res |-> NoResult,
               issue |-> Some(IssueFromFile(
                            PrependTitle(p, rec.fields[p.title_column_index.v + 1]),
                            CombineRemaining(p, ah, rec.fields)))]
    ELSE IF p.description_column_index.some
    THEN IF DescriptionFromColumn(p, rec.fields).ok
         THEN [res |-> NoResult,
               issue |-> Some(IssueFromFile(
                            PrependTitle(p, rec.fields[p.title_column_index.v + 1]),
                            DescriptionFromColumn(p, rec.fields).d))]
         ELSE [res |-> Err("Could not get description"), issue |-> None]
    ELSE [res |-> NoResult,
          issue |-> Some(IssueFromFile(
                       PrependTitle(p, rec.fields[p.title_column_index.v + 1]), None))]

(***************************************************************************)
(* JSON documents as serde_json parses them.  An object is the sequence of *)
(* its entries in iteration order, with distinct keys.                     *)
(***************************************************************************)
JsonKeys == {<<"T">>, <<"t">>, <<" ", "d">>, <<" ", "D">>}
JString(x) == [kind |-> "string", s |-> x]
JBool(b) == [kind |-> "bool", b |-> b]
JNumber(n) == [kind |-> "number", n |-> n]
JNull == [kind |-> "null"]
JObject(es) == [kind |-> "object", entries |-> es]
JArray(xs) == [kind |-> "array", items |-> xs]
\* a file that cannot be read, and one that is not JSON
JUnreadable == [kind |-> "unreadable"]
JMalformed == [kind |-> "malformed"]

EntryValues ==
    {JString(<<"s">>), JBool(TRUE), JNumber(7), JNull, JObject(<<>>), JArray(<<>>)}
Entries == {[key |-> k, value |-> v] : k \in JsonKeys, v \in EntryValues}

DistinctKeys(es) == \A i, j \in 1..Len(es) : i # j => es[i].key # es[j].key

Objects(n) == {JObject(es) : es \in {e \in SeqsOf(Entries, 0, n) : DistinctKeys(e)}}

NonObjects == {JNull, JString(<<"s">>)}

RECURSIVE EntryCount(_)
EntryCount(xs) ==
    IF xs = <<>> THEN 0
    ELSE (IF Head(xs).kind = "object" THEN Len(Head(xs).entries) ELSE 0) + EntryCount(Tail(xs))

\* the elements of an array: objects over two scalars and one nested value, or
\* non-objects; ItemsWith(k) are the elements that hold k entries
ItemValues == {JString(<<"s">>), JNumber(7), JObject(<<>>)}
ItemEntries == {[key |-> k, value |-> v] : k \in JsonKeys, v \in ItemValues}
ItemsWith(k) ==
    {JObject(es) : es \in {e \in [1..k -> ItemEntries] : DistinctKeys(e)}}
    \cup (IF k = 0 THEN NonObjects ELSE {})

\* the arrays of at most n elements that hold at most e entries together
RECURSIVE Arrays(_, _)
Arrays(n, e) ==
    IF n = 0 THEN {<<>>}
    ELSE {<<>>} \cup UNION {{<<x>> \o xs : x \in ItemsWith(k), xs \in Arrays(n - 1, e - k)} :
                            k \in 0..e}

\* the documents whose root is not an array
JsonRoots ==
    {JUnreadable, JMalformed} \cup NonObjects \cup {JNumber(7)} \cup Objects(MaxEntries)

\* the file holds a document: one of JsonRoots, or an array of at most MaxItems
\* elements that hold at most MaxEntries entries together
JsonDoc ==
    \/ file \in JsonRoots
    \/ file = JArray(<<>>)
    \/ \E k \in 0..MaxEntries :
          \E x \in ItemsWith(k), xs \in Arrays(MaxItems - 1, MaxEntries - k) :
             file = JArray(<<x>> \o xs)

(***************************************************************************)
(* serde_object_to_issue, lines 255-302                                    *)
(***************************************************************************)
\* variant: a nested object or array becomes the empty text
StringifyNestedAsEmpty(value) ==
    CASE value.kind = "string" -> Some(value.s)
      [] value.kind = "bool" ->
            Some(IF value.b THEN <<"t", "r", "u", "e">> ELSE <<"f", "a", "l", "s", "e">>)
      [] value.kind = "number" -> Some(UsizeToString(value.n))
      [] value.kind = "null" -> Some(<<"n", "u", "l", "l">>)
      [] OTHER -> Some(<<>>)

\* lines 266-272: None for a nested object or array
Stringify(value) ==
    CASE value.kind = "string" -> Some(value.s)
      [] value.kind = "bool" ->
            Some(IF value.b THEN <<"t", "r", "u", "e">> ELSE <<"f", "a", "l", "s", "e">>)
      [] value.kind = "number" -> Some(UsizeToString(value.n))
      [] value.kind = "null" -> Some(<<"n", "u", "l", "l">>)
      [] OTHER -> None

\* description_string.join("")
RECURSIVE Join(_)
Join(strs) == IF strs = <<>> THEN <<>> ELSE Head(strs) \o Join(Tail(strs))

\* variant: the first key equal to the title key gives the title
RECURSIVE ObjectLoopFirstTitle(_, _, _, _, _)
ObjectLoopFirstTitle(p, es, i, title, ds) ==
    IF i > Len(es)
    THEN [res |-> NoResult,
          issue |-> Some(IssueFromFile(title, IF ds = <<>> THEN None ELSE Some(Join(ds))))]
    ELSE IF ~Stringify(es[i].value).some
    THEN [res |-> Err("Title is not a string"), issue |-> None]
    ELSE IF to_lowercase(es[i].key) = to_lowercase(p.title_key.v)
    THEN ObjectLoopFirstTitle(p, es, i + 1,
                              IF title = <<>> THEN Stringify(es[i].value).v ELSE title, ds)
    ELSE IF p.combine_remaining
    THEN ObjectLoopFirstTitle(p, es, i + 1, title,
             Append(ds, trim(es[i].key) \o <<":", " ">> \o Stringify(es[i].value).v
                        \o <<"\n", "\n">>))
    ELSE IF p.description_key.some
            /\ to_lowercase(es[i].key) = to_lowercase(p.description_key.v)
    THEN ObjectLoopFirstTitle(p, es, i + 1, title, <<Stringify(es[i].value).v>>)
    ELSE ObjectLoopFirstTitle(p, es, i + 1, title, ds)

\* variant: the description is present also when no fragment was collected
RECURSIVE ObjectLoopAlwaysDescription(_, _, _, _, _)
ObjectLoopAlwaysDescription(p, es, i, title, ds) ==
    IF i > Len(es)
    THEN [res |-> NoResult, issue |-> Some(IssueFromFile(title, Some(Join(ds))))]
    ELSE IF ~Stringify(es[i].value).some
    THEN [res |-> Err("Title is not a string"), issue |-> None]
    ELSE IF to_lowercase(es[i].key) = to_lowercase(p.title_key.v)
    THEN ObjectLoopAlwaysDescription(p, es, i + 1, Stringify(es[i].value).v, ds)
    ELSE IF p.combine_remaining
    THEN ObjectLoopAlwaysDescription(p, es, i + 1, title,
             Append(ds, trim(es[i].key) \o <<":", " ">> \o Stringify(es[i].value).v
                        \o <<"\n", "\n">>))
    ELSE IF p.description_key.some
            /\ to_lowercase(es[i].key) = to_lowercase(p.description_key.v)
    THEN ObjectLoopAlwaysDescription(p, es, i + 1, title, <<Stringify(es[i].value).v>>)
    ELSE ObjectLoopAlwaysDescription(p, es, i + 1, title, ds)

\* variant: a further description key appends to description_string
RECURSIVE ObjectLoopAppendDescription(_, _, _, _, _)
ObjectLoopAppendDescription(p, es, i, title, ds) ==
    IF i > Len(es)
    THEN [res |-> NoResult,
          issue |-> Some(IssueFromFile(title, IF ds = <<>> THEN None ELSE Some(Join(ds))))]
    ELSE IF ~Stringify(es[i].value).some
    THEN [res |-> Err("Title is not a string"), issue |-> None]
    ELSE IF to_lowercase(es[i].key) = to_lowercase(p.title_key.v)
    THEN ObjectLoopAppendDescription(p, es, i + 1, Stringify(es[i].value).v, ds)
    ELSE IF p.combine_remaining
    THEN ObjectLoopAppendDescription(p, es, i + 1, title,
             Append(ds, trim(es[i].key) \o <<":", " ">> \o Stringify(es[i].value).v
                        \o <<"\n", "\n">>))
    ELSE IF p.description_key.some
            /\ to_lowercase(es[i].key) = to_lowercase(p.description_key.v)
    THEN ObjectLoopAppendDescription(p, es, i + 1, title,
                                     Append(ds, Stringify(es[i].value).v))
    ELSE ObjectLoopAppendDescription(p, es, i + 1, title, ds)

\* lines 265-301: the loop from entry i on, with the accumulators title and
\* description_string
RECURSIVE ObjectLoop(_, _, _, _, _)
ObjectLoop(p, es, i, title, ds) ==
    IF i > Len(es)
    THEN [res |-> NoResult,
          issue |-> Some(IssueFromFile(title, IF ds = <<>> THEN None ELSE Some(Join(ds))))]
    ELSE IF ~Stringify(es[i].value).some
    THEN [res |-> Err("Title is not a string"), issue |-> None]
    ELSE IF to_lowercase(es[i].key) = to_lowercase(p.title_key.v)
    THEN ObjectLoop(p, es, i + 1, Stringify(es[i].value).v, ds)
    ELSE IF p.combine_remaining
    THEN ObjectLoop(p, es, i + 1, title,
             Append(ds, trim(es[i].key) \o <<":", " ">> \o Stringify(es[i].value).v
                        \o <<"\n", "\n">>))
    ELSE IF p.description_key.some
            /\ to_lowercase(es[i].key) = to_lowercase(p.description_key.v)
    THEN ObjectLoop(p, es, i + 1, title, <<Stringify(es[i].value).v>>)
    ELSE ObjectLoop(p, es, i + 1, title, ds)

\* variant: an object that leaves the title empty is an error
serde_object_to_issue_title_required(p, es) ==
    IF ~p.title_key.some THEN [res |-> Panic, issue |-> None]
    ELSE LET out == ObjectLoop(p, es, 1, <<>>, <<>>)
         IN  IF out.res.kind = "none" /\ out.issue.v.title = <<>>
             THEN [res |-> Err("Could not get title"), issue |-> None]
             ELSE out

serde_object_to_issue(p, es) ==
    IF ~p.title_key.some THEN [res |-> Panic, issue |-> None]
    ELSE ObjectLoop(p, es, 1, <<>>, <<>>)


(***************************************************************************)
(* FileParser::new, lines 35-59                                            *)
(***************************************************************************)
ExtCsv == <<"c", "s", "v">>
ExtJson == <<"j", "s", "o", "n">>
ExtTxt == <<"t", "x", "t">>
ExtCsvUpper == <<"C", "S", "V">>

\* the constructor arguments; the separator is always supplied
Args(ext, nh, tk, ti, dk, di, pt, cr) ==
    [extension |-> ext, separator |-> Some(","), no_header |-> nh,
     title_key |-> tk, title_column_index |-> ti,
     description_key |-> dk, description_column_index |-> di,
     prepend_title |-> pt, combine_remaining |-> cr]

New(a) ==
    [file_extension |-> to_lowercase(a.extension), separator |-> a.separator,
     no_header |-> a.no_header,
     title_key |-> a.title_key, title_column_index |-> a.title_column_index,
     description_key |-> a.description_key,
     description_column_index |-> a.description_column_index,
     prepend_title |-> a.prepend_title, combine_remaining |-> a.combine_remaining]

CsvArgs ==
    {Args(ExtCsv, nh, tk, ti, dk, di, pt, cr) :
        nh \in BOOLEAN, tk \in OptTitleKeys, ti \in OptIndexes, dk \in OptDescriptionKeys,
        di \in OptIndexes, pt \in OptPrefixes, cr \in BOOLEAN}

OtherArgs(ext) ==
    {Args(ext, FALSE, tk, None, dk, None, pt, cr) :
        tk \in OptTitleKeys, dk \in OptJsonDescriptionKeys, pt \in OptPrefixes,
        cr \in BOOLEAN}

InitCsv ==
    /\ args \in CsvArgs
    /\ file \in CsvFilesWithHeader \cup CsvFilesNoHeader
    /\ args.no_header => file \in CsvFilesNoHeader
    /\ ~args.no_header => file \in CsvFilesWithHeader

InitJson ==
    /\ args \in OtherArgs(ExtJson)
    /\ JsonDoc

\* a file of another type: whatever it holds, here the bytes of a CSV file
InitTxt ==
    /\ args \in OtherArgs(ExtTxt)
    /\ file \in CsvFilesNoHeader

\* an extension in upper case, as in "ISSUES.CSV"
InitUpper ==
    /\ args \in OtherArgs(ExtCsvUpper)
    /\ file \in CsvFilesWithHeader

\* a freshly constructed parser, get_issues not yet called
Constructed ==
    /\ parser = New(args)
    /\ pc = "idle"
    /\ reader = [pos |-> 0, yielded |-> 0]
    /\ all_headers = <<>>
    /\ issues = <<>>
    /\ result = NoResult
    /\ lookups = {}
    /\ prev = NoResult
    /\ calls = 0

Init == (InitCsv \/ InitJson \/ InitTxt \/ InitUpper) /\ Constructed

(***************************************************************************)
(* get_issues, lines 60-66: dispatch on the file extension                 *)
(***************************************************************************)
\* variant: the records of an earlier call are kept
GetIssuesKeepIssues ==
    /\ pc = "idle"
    /\ IF parser.file_extension = ExtCsv
       THEN pc' = "csv_resolve" /\ result' = NoResult
       ELSE IF parser.file_extension = ExtJson
       THEN pc' = "json_read" /\ result' = NoResult
       ELSE pc' = "done" /\ result' = Err("Unsupported file type")
    /\ reader' = [pos |-> 0, yielded |-> 0]
    /\ all_headers' = <<>>
    /\ lookups' = {}
    /\ UNCHANGED <<args, parser, file, issues, prev, calls>>

\* variant: every extension other than "json" is read as CSV
GetIssuesCsvByDefault ==
    /\ pc = "idle"
    /\ IF parser.file_extension = ExtJson
       THEN pc' = "json_read" /\ result' = NoResult
       ELSE pc' = "csv_resolve" /\ result' = NoResult
    /\ reader' = [pos |-> 0, yielded |-> 0]
    /\ all_headers' = <<>>
    /\ issues' = <<>>
    /\ lookups' = {}
    /\ UNCHANGED <<args, parser, file, prev, calls>>

GetIssues ==
    /\ pc = "idle"
    /\ IF parser.file_extension = ExtCsv
       THEN pc' = "csv_resolve" /\ result' = NoResult
       ELSE IF parser.file_extension = ExtJson
       THEN pc' = "json_read" /\ result' = NoResult
       ELSE pc' = "done" /\ result' = Err("Unsupported file type")
    /\ reader' = [pos |-> 0, yielded |-> 0]
    /\ all_headers' = <<>>
    /\ issues' = <<>>
    /\ lookups' = {}
    /\ UNCHANGED <<args, parser, file, prev, calls>>

(***************************************************************************)
(* csv_to_issues, lines 67-211                                             *)
(***************************************************************************)
\* lines 70-152
CsvResolve ==
    /\ pc = "csv_resolve"
    /\ parser' = ResolveColumns(parser, file).p
    /\ all_headers' = ResolveColumns(parser, file).ah
    /\ lookups' = ResolveColumns(parser, file).lk
    /\ result' = ResolveColumns(parser, file).res
    /\ pc' = IF ResolveColumns(parser, file).res.kind = "none" THEN "csv_stream" ELSE "done"
    /\ reader' = [pos |-> IF file = <<>> \/ (parser.no_header /\ ~parser.title_column_index.some)
                          THEN 0 ELSE 1,
                  yielded |-> 0]
    /\ UNCHANGED <<args, file, issues, prev, calls>>

\* variant: the new record is put in front of the earlier ones
CsvRecordInFront ==
    /\ pc = "csv_stream"
    /\ RecordPosition(parser.no_header, reader.yielded + 1) <= Len(file)
    /\ LET i == RecordPosition(parser.no_header, reader.yielded + 1)
           out == RecordToIssue(parser, all_headers, ReadRecord(file, i))
       IN  /\ reader' = [pos |-> i, yielded |-> reader.yielded + 1]
           /\ IF out.res.kind = "none"
              THEN /\ issues' = <<out.issue.v>> \o issues
                   /\ UNCHANGED <<pc, result>>
              ELSE /\ result' = out.res
                   /\ pc' = "done"
                   /\ UNCHANGED issues
    /\ UNCHANGED <<args, parser, file, all_headers, lookups, prev, calls>>

\* lines 157-208: one iteration of `for result in reader.records()`
CsvRecord ==
    /\ pc = "csv_stream"
    /\ RecordPosition(parser.no_header, reader.yielded + 1) <= Len(file)
    /\ LET i == RecordPosition(parser.no_header, reader.yielded + 1)
           out == RecordToIssue(parser, all_headers, ReadRecord(file, i))
       IN  /\ reader' = [pos |-> i, yielded |-> reader.yielded + 1]
           /\ IF out.res.kind = "none"
              THEN /\ issues' = Append(issues, out.issue.v)
                   /\ UNCHANGED <<pc, result>>
              ELSE /\ result' = out.res
                   /\ pc' = "done"
                   /\ UNCHANGED issues
    /\ UNCHANGED <<args, parser, file, all_headers, lookups, prev, calls>>

\* line 210: the loop is exhausted
CsvEnd ==
    /\ pc = "csv_stream"
    /\ RecordPosition(parser.no_header, reader.yielded + 1) > Len(file)
    /\ result' = Ok(issues)
    /\ pc' = "done"
    /\ UNCHANGED <<args, parser, file, reader, all_headers, issues, lookups, prev, calls>>

(***************************************************************************)
(* json_to_issues, lines 212-254                                           *)
(***************************************************************************)
\* lines 214-225 and 241-251: read, parse, and every root that is not an array
JsonRead ==
    /\ pc = "json_read"
    /\ IF file.kind = "unreadable"
       THEN result' = Err("Could not read file") /\ pc' = "done" /\ UNCHANGED issues
       ELSE IF file.kind = "malformed"
       THEN result' = Err("Could not parse json") /\ pc' = "done" /\ UNCHANGED issues
       ELSE IF file.kind = "array"
       THEN UNCHANGED <<result, issues>> /\ pc' = "json_stream"
       ELSE IF file.kind = "object"
       THEN LET out == serde_object_to_issue(parser, file.entries)
            IN  /\ pc' = "done"
                /\ IF out.res.kind = "none"
                   THEN issues' = <<out.issue.v>> /\ result' = Ok(<<out.issue.v>>)
                   ELSE result' = out.res /\ UNCHANGED issues
       ELSE /\ result' = Err("Json data is not of a format that can be parsed")
            /\ pc' = "done"
            /\ UNCHANGED issues
    /\ UNCHANGED <<args, parser, file, reader, all_headers, lookups, prev, calls>>

\* variant: an element that is not an object is skipped
JsonItemSkipNonObject ==
    /\ pc = "json_stream"
    /\ reader.yielded < Len(file.items)
    /\ LET item == file.items[reader.yielded + 1]
       IN  /\ reader' = [reader EXCEPT !.yielded = reader.yielded + 1]
           /\ IF item.kind = "object"
              THEN LET out == serde_object_to_issue(parser, item.entries)
                   IN  IF out.res.kind = "none"
                       THEN /\ issues' = Append(issues, out.issue.v)
                            /\ UNCHANGED <<pc, result>>
                       ELSE /\ result' = out.res
                            /\ pc' = "done"
                            /\ UNCHANGED issues
              ELSE UNCHANGED <<pc, result, issues>>
    /\ UNCHANGED <<args, parser, file, all_headers, lookups, prev, calls>>

\* lines 227-240: one iteration of `for item in data.as_array()`
JsonItem ==
    /\ pc = "json_stream"
    /\ reader.yielded < Len(file.items)
    /\ LET item == file.items[reader.yielded + 1]
       IN  /\ reader' = [reader EXCEPT !.yielded = reader.yielded + 1]
           /\ IF item.kind = "object"
              THEN LET out == serde_object_to_issue(parser, item.entries)
                   IN  IF out.res.kind = "none"
                       THEN /\ issues' = Append(issues, out.issue.v)
                            /\ UNCHANGED <<pc, result>>
                       ELSE /\ result' = out.res
                            /\ pc' = "done"
                            /\ UNCHANGED issues
              ELSE /\ result' = Err("Json data is not of a format that can be parsed")
                   /\ pc' = "done"
                   /\ UNCHANGED issues
    /\ UNCHANGED <<args, parser, file, all_headers, lookups, prev, calls>>

\* line 253
JsonEnd ==
    /\ pc = "json_stream"
    /\ reader.yielded >= Len(file.items)
    /\ result' = Ok(issues)
    /\ pc' = "done"
    /\ UNCHANGED <<args, parser, file, reader, all_headers, issues, lookups, prev, calls>>

Next ==
    \/ GetIssues
    \/ CsvResolve
    \/ CsvRecord
    \/ CsvEnd
    \/ JsonRead
    \/ JsonItem
    \/ JsonEnd

Spec == Init /\ [][Next]_vars

(***************************************************************************)
(* The CSV path alone: get_issues on a parser constructed for a .csv file  *)
(***************************************************************************)
CsvInit == InitCsv /\ Constructed

CsvNext ==
    \/ GetIssues
    \/ CsvResolve
    \/ CsvRecord
    \/ CsvEnd

SpecCsv == CsvInit /\ [][CsvNext]_vars

(***************************************************************************)
(* The JSON path alone: get_issues on a parser constructed for a .json     *)
(* file                                                                    *)
(***************************************************************************)
\* no title prefix, which serde_object_to_issue never reads; without a title
\* key the call panics whatever the other arguments are
JsonArgs ==
    {a \in OtherArgs(ExtJson) :
        /\ a.prepend_title = None
        /\ a.title_key = None => (a.description_key = None /\ ~a.combine_remaining)}

JsonInit ==
    /\ args \in JsonArgs
    /\ JsonDoc
    /\ Constructed

JsonNext ==
    \/ GetIssues
    \/ JsonRead
    \/ JsonItem
    \/ JsonEnd

SpecJson == JsonInit /\ [][JsonNext]_vars

(***************************************************************************)
(* Every file type, with the title selected by name or index only: the     *)
(* dispatch of get_issues on the extension                                 *)
(***************************************************************************)
DispatchArgs(ext, NH, TI) ==
    {Args(ext, nh, tk, ti, None, None, None, FALSE) :
        nh \in NH, tk \in OptTitleKeys, ti \in TI}

DispatchInit ==
    /\ \/ /\ args \in DispatchArgs(ExtCsv, BOOLEAN, OptIndexes)
          /\ file \in CsvFilesWithHeader \cup CsvFilesNoHeader
          /\ args.no_header => file \in CsvFilesNoHeader
          /\ ~args.no_header => file \in CsvFilesWithHeader
       \/ /\ args \in DispatchArgs(ExtJson, {FALSE}, {None})
          /\ JsonDoc
       \/ /\ args \in DispatchArgs(ExtTxt, {FALSE}, {None})
          /\ file \in CsvFilesNoHeader
       \/ /\ args \in DispatchArgs(ExtCsvUpper, {FALSE}, {None})
          /\ file \in CsvFilesWithHeader
    /\ Constructed

SpecDispatch == DispatchInit /\ [][Next]_vars

(***************************************************************************)
(* Both paths, with the CSV description selected by index or by combining  *)
(***************************************************************************)
RecordsInit ==
    /\ \/ /\ args \in {a \in CsvArgs : a.description_key = None}
          /\ file \in CsvFilesWithHeader \cup CsvFilesNoHeader
          /\ args.no_header => file \in CsvFilesNoHeader
          /\ ~args.no_header => file \in CsvFilesWithHeader
       \/ /\ args \in JsonArgs
          /\ JsonDoc
    /\ Constructed

SpecRecords == RecordsInit /\ [][Next]_vars

(***************************************************************************)
(* get_issues called again on the same parser and the same file: the       *)
(* parser keeps what the earlier call stored in it (lines 95 and 127),     *)
(* everything else of a call is local to it                                *)
(***************************************************************************)
Again ==
    /\ pc = "done"
    /\ calls < MaxRepeats
    /\ pc' = "idle"
    /\ prev' = result
    /\ calls' = calls + 1
    /\ UNCHANGED <<args, parser, file, reader, all_headers, issues, result, lookups>>

\* combine mode, no prefix and no description name
RepeatArgs(S) ==
    {a \in S : a.combine_remaining /\ a.prepend_title = None /\ a.description_key = None}

RepeatInit ==
    /\ \/ /\ args \in RepeatArgs(CsvArgs)
          /\ file \in CsvFilesWithHeader \cup CsvFilesNoHeader
          /\ args.no_header => file \in CsvFilesNoHeader
          /\ ~args.no_header => file \in CsvFilesWithHeader
       \/ /\ args \in RepeatArgs(JsonArgs)
          /\ JsonDoc
    /\ Constructed

RepeatNext ==
    \/ GetIssues
    \/ CsvResolve
    \/ CsvRecord
    \/ CsvEnd
    \/ JsonRead
    \/ JsonItem
    \/ JsonEnd
    \/ Again

SpecRepeat == RepeatInit /\ [][RepeatNext]_vars

(***************************************************************************)
(* get_issues called again after the header row of the file was rewritten: *)
(* the parser is the one the earlier call left, the locals of that call    *)
(* are gone                                                                *)
(***************************************************************************)
Rewrite ==
    /\ pc = "done"
    /\ calls < MaxRepeats
    /\ \E h \in HeaderRows : file' = <<h>> \o (IF file = <<>> THEN <<>> ELSE Tail(file))
    /\ pc' = "idle"
    /\ calls' = calls + 1
    /\ reader' = [pos |-> 0, yielded |-> 0]
    /\ all_headers' = <<>>
    /\ issues' = <<>>
    /\ result' = NoResult
    /\ lookups' = {}
    /\ prev' = NoResult
    /\ UNCHANGED <<args, parser>>

\* a CSV file with a header, the title selected by name
RefreshInit ==
    /\ args \in {Args(ExtCsv, FALSE, Some(tk), ti, dk, None, None, FALSE) :
                   tk \in TitleKeys, ti \in OptIndexes, dk \in OptDescriptionKeys}
    /\ file \in UNION {{<<h>> \o d : d \in DataFiles(2, n)} :
                        h \in HeaderRows, n \in 0..(MaxRows - 2)}
    /\ Constructed

RefreshNext ==
    \/ GetIssues
    \/ CsvResolve
    \/ CsvRecord
    \/ CsvEnd
    \/ Rewrite

SpecRefresh == RefreshInit /\ [][RefreshNext]_vars

(***************************************************************************)
(* get_issues as a function of the parser and the file: what one call      *)
(* returns, computed with the operators the actions use                    *)
(***************************************************************************)
\* lines 157-210: the records loop from the k-th yielded record on
RECURSIVE CsvRecords(_, _, _, _, _)
CsvRecords(p, ah, f, k, acc) ==
    IF RecordPosition(p.no_header, k) > Len(f) THEN Ok(acc)
    ELSE LET out == RecordToIssue(p, ah, ReadRecord(f, RecordPosition(p.no_header, k)))
         IN  IF out.res.kind = "none"
             THEN CsvRecords(p, ah, f, k + 1, Append(acc, out.issue.v))
             ELSE out.res

\* lines 67-211
csv_to_issues(p, f) ==
    LET r == ResolveColumns(p, f)
    IN  IF r.res.kind = "none" THEN CsvRecords(r.p, r.ah, f, 1, <<>>) ELSE r.res

\* lines 227-240 and 253: the elements of a root array from the k-th on
RECURSIVE JsonItems(_, _, _, _)
JsonItems(p, xs, k, acc) ==
    IF k > Len(xs) THEN Ok(acc)
    ELSE IF xs[k].kind # "object"
    THEN Err("Json data is not of a format that can be parsed")
    ELSE LET out == serde_object_to_issue(p, xs[k].entries)
         IN  IF out.res.kind = "none"
             THEN JsonItems(p, xs, k + 1, Append(acc, out.issue.v))
             ELSE out.res

\* lines 212-254
json_to_issues(p, doc) ==
    CASE doc.kind = "unreadable" -> Err("Could not read file")
      [] doc.kind = "malformed" -> Err("Could not parse json")
      [] doc.kind = "array" -> JsonItems(p, doc.items, 1, <<>>)
      [] doc.kind = "object" ->
            LET out == serde_object_to_issue(p, doc.entries)
            IN  IF out.res.kind = "none" THEN Ok(<<out.issue.v>>) ELSE out.res
      [] OTHER -> Err("Json data is not of a format that can be parsed")

\* lines 60-66
get_issues(p, f) ==
    IF p.file_extension = ExtCsv THEN csv_to_issues(p, f)
    ELSE IF p.file_extension = ExtJson THEN json_to_issues(p, f)
    ELSE Err("Unsupported file type")

\* the first call on a fresh parser returns what get_issues computes
FirstCallReturnsGetIssues ==
    (calls = 0 /\ pc = "done") => result = get_issues(New(args), file)


(***************************************************************************)
(* Vocabulary of the properties                                            *)
(***************************************************************************)
IsCsv == parser.file_extension = ExtCsv
IsJson == parser.file_extension = ExtJson
Resolved == pc \in {"csv_stream", "done"}
HeaderLen == Len(ReaderHeaders(file).fields)
NameNotFound == result.kind = "err" /\ result.msg = "Could not find column with name"
OutOfBounds ==
    /\ result.kind = "err"
    /\ result.msg \in {"title_column_index is out of bounds",
                       "description_column_index is out of bounds"}

\* positions (1-based) of the header entries equal to key up to letter case
Matches(key) ==
    {i \in 1..HeaderLen : to_lowercase(ReaderHeaders(file).fields[i]) = to_lowercase(key)}

\* the k-th data row of the CSV file
DataRowAt(k) == file[RecordPosition(args.no_header, k)]
DataRowCount == IF args.no_header THEN Len(file) ELSE IF file = <<>> THEN 0 ELSE Len(file) - 1

\* the title the specification prescribes for a raw title
PrefixedTitle(raw) ==
    IF args.prepend_title.some THEN args.prepend_title.v \o <<" ">> \o raw ELSE raw

\* the raw title of a JSON object: the value of the last key matching the title key
JsonRawTitle(es) ==
    LET m == {i \in 1..Len(es) : to_lowercase(es[i].key) = to_lowercase(args.title_key.v)}
    IN  IF m = {} THEN <<>> ELSE Stringify(es[MaxOf(m)].value).v

JsonObjectAt(k) == IF file.kind = "object" THEN file.entries ELSE file.items[k].entries

\* the configuration has a usable title selector
ValidTitleSelector ==
    IF IsCsv
    THEN args.title_column_index.some \/ (args.title_key.some /\ ~args.no_header)
    ELSE args.title_key.some

(***************************************************************************)
(* C1: with both a name and an explicit index configured for a field, a    *)
(* CSV extraction with a header reads the column at the explicit index     *)
(* for every row: the name does not change the index in use.               *)
(***************************************************************************)
C1_IndexWinsOverName ==
    (IsCsv /\ ~args.no_header /\ Resolved /\ ValidTitleSelector) =>
        /\ (args.title_key.some /\ args.title_column_index.some) =>
              /\ parser.title_column_index = args.title_column_index
              /\ \A k \in 1..Len(issues) :
                    issues[k].title =
                        PrefixedTitle(DataRowAt(k).fields[args.title_column_index.v + 1])
        /\ (args.description_key.some /\ args.description_column_index.some) =>
              /\ parser.description_column_index = args.description_column_index
              /\ ~args.combine_remaining =>
                    \A k \in 1..Len(issues) :
                        issues[k].description =
                            Some(DataRowAt(k).fields[args.description_column_index.v + 1])

(***************************************************************************)
(* C2: every returned record has title "<prefix> <rawTitle>" when a prefix *)
(* is configured and the raw title otherwise, on the CSV and JSON paths.   *)
(***************************************************************************)
C2_TitlePrefixOnBothPaths ==
    (pc = "done" /\ result.kind = "ok") =>
        \A k \in 1..Len(result.issues) :
            result.issues[k].title =
                PrefixedTitle(IF IsCsv
                              THEN DataRowAt(k).fields[parser.title_column_index.v + 1]
                              ELSE JsonRawTitle(JsonObjectAt(k)))

(***************************************************************************)
(* C3: without combine mode, a data row that has a title field but no      *)
(* field at the configured description index still produces a record,      *)
(* with description None, and extraction continues.                        *)
(***************************************************************************)
C3_MissingDescriptionTolerated ==
    (/\ IsCsv /\ pc \in {"csv_stream", "done"} /\ ~parser.combine_remaining
     /\ reader.yielded >= 1
     /\ parser.title_column_index.some /\ parser.description_column_index.some
     /\ DataRowAt(reader.yielded).ok
     /\ parser.title_column_index.v < Len(DataRowAt(reader.yielded).fields)
     /\ parser.description_column_index.v >= Len(DataRowAt(reader.yielded).fields))
    => /\ Len(issues) = reader.yielded
       /\ issues[reader.yielded].description = None
       /\ result.kind # "err"

(***************************************************************************)
(* C4: extraction is all-or-nothing: when a CSV data row cannot be read or *)
(* has no field at the title index, or a JSON array element is not an      *)
(* object, or an object holds a nested value, get_issues returns an error  *)
(* and no records.                                                         *)
(***************************************************************************)
CsvRowFails ==
    \E k \in 1..DataRowCount :
        \/ ~DataRowAt(k).ok
        \/ parser.title_column_index.some
           /\ parser.title_column_index.v >= Len(DataRowAt(k).fields)

HasNested(es) == \E i \in 1..Len(es) : es[i].value.kind \in {"object", "array"}

JsonElementFails ==
    \/ file.kind = "object" /\ HasNested(file.entries)
    \/ file.kind = "array"
       /\ \E i \in 1..Len(file.items) :
             \/ file.items[i].kind # "object"
             \/ HasNested(file.items[i].entries)

C4_AllOrNothing ==
    (/\ pc = "done" /\ ValidTitleSelector
     /\ \/ IsCsv /\ CsvRowFails
        \/ IsJson /\ JsonElementFails)
    => /\ result.kind = "err"
       /\ result.issues = <<>>

(***************************************************************************)
(* C5: with a header, when name resolution raises no error and the         *)
(* resolved title index or the configured description index is not below   *)
(* the number of header fields, get_issues returns an out-of-bounds error  *)
(* before any data row is read.                                            *)
(***************************************************************************)
C5_OutOfBoundsBeforeRows ==
    (/\ IsCsv /\ ~args.no_header /\ Resolved
     /\ ReaderHeaders(file).ok /\ ~NameNotFound
     /\ parser.title_column_index.some
     /\ \/ parser.title_column_index.v >= HeaderLen
        \/ args.description_column_index.some
           /\ args.description_column_index.v >= HeaderLen)
    => /\ pc = "done"
       /\ OutOfBounds
       /\ reader.yielded = 0
       /\ issues = <<>>

(***************************************************************************)
(* C6: without a header and with the title selected by name only, the CSV  *)
(* extraction returns an error value before any row is read; it does not   *)
(* stream rows and does not terminate abnormally.                          *)
(***************************************************************************)
C6_NameWithoutHeaderIsError ==
    (/\ IsCsv /\ args.no_header
     /\ args.title_key.some /\ ~args.title_column_index.some
     /\ Resolved)
    => /\ pc = "done"
       /\ result.kind = "err"
       /\ reader.yielded = 0


(***************************************************************************)
(* C7: a name is resolved against the header by case-insensitive exact     *)
(* match, scanning in header order: the index in use is the position of    *)
(* the first matching entry, and every row's title is read from it.        *)
(***************************************************************************)
C7_FirstCaseInsensitiveMatch ==
    (/\ IsCsv /\ ~args.no_header /\ Resolved /\ ReaderHeaders(file).ok
     /\ args.title_key.some /\ Matches(args.title_key.v) # {})
    => /\ \E i \in Matches(args.title_key.v) :
             /\ \A j \in Matches(args.title_key.v) : i <= j
             /\ parser.title_column_index = Some(i - 1)
             /\ \A k \in 1..Len(issues) :
                   issues[k].title = PrefixedTitle(DataRowAt(k).fields[i])
       /\ (~args.combine_remaining /\ args.description_key.some
           /\ Matches(args.description_key.v) # {}) =>
             \E i \in Matches(args.description_key.v) :
                /\ \A j \in Matches(args.description_key.v) : i <= j
                /\ parser.description_column_index = Some(i - 1)

\* the header names the title key twice, and a record was read from the first
C7_Witness ==
    /\ IsCsv /\ pc = "done" /\ result.kind = "ok"
    /\ ~args.title_column_index.some
    /\ args.title_key = Some(<<"t">>)
    /\ ReaderHeaders(file).fields = <<<<"T">>, <<"T">>>>
    /\ parser.title_column_index = Some(0)
    /\ Len(result.issues) >= 1
    /\ result.issues[1].title = PrefixedTitle(Cell(2, 0))

(***************************************************************************)
(* C8: with a header, a title selected by name only that matches no header *)
(* entry fails with name-not-found and no records; so does a description   *)
(* selected by name only when combine mode is off; in combine mode the     *)
(* description name is not resolved.                                       *)
(***************************************************************************)
TitleNameMissing ==
    args.title_key.some /\ ~args.title_column_index.some /\ Matches(args.title_key.v) = {}

DescriptionNameMissing ==
    /\ args.description_key.some /\ ~args.description_column_index.some
    /\ Matches(args.description_key.v) = {}

C8_NameNotFound ==
    (IsCsv /\ ~args.no_header /\ Resolved /\ ReaderHeaders(file).ok) =>
        /\ TitleNameMissing =>
              /\ pc = "done"
              /\ result = ErrName("Could not find column with name", args.title_key.v)
              /\ issues = <<>> /\ reader.yielded = 0
        /\ (~TitleNameMissing /\ ~args.combine_remaining /\ DescriptionNameMissing) =>
              /\ pc = "done"
              /\ result = ErrName("Could not find column with name", args.description_key.v)
              /\ issues = <<>> /\ reader.yielded = 0
        /\ args.combine_remaining =>
              /\ "description" \notin lookups
              /\ parser.description_column_index = args.description_column_index
              /\ ~(NameNotFound /\ ~TitleNameMissing)

\* the title name resolved, the description name did not
C8_Witness ==
    /\ IsCsv /\ ~args.no_header /\ pc = "done"
    /\ args.title_key.some /\ Matches(args.title_key.v) # {}
    /\ ~args.combine_remaining /\ DescriptionNameMissing
    /\ Len(file) >= 2
    /\ NameNotFound /\ result.name = args.description_key

(***************************************************************************)
(* C9 as stated: in combine mode the description is the concatenation, in   *)
(* column order, of "<label>: <value>\n\n" for every field except the one   *)
(* at the title index, the label being the header name as it stands, or     *)
(* "Column <i>" without a header.                                           *)
(***************************************************************************)
ColumnLabel(i) ==
    IF args.no_header
    THEN <<"C", "o", "l", "u", "m", "n", " ">> \o UsizeToString(i)
    ELSE ReaderHeaders(file).fields[i + 1]

TrimmedLabel(i) == trim(ColumnLabel(i))

\* fragments of the first n columns of a row, with the label trimmed or not
RECURSIVE Fragments(_, _, _)
Fragments(fields, n, trimmed) ==
    IF n = 0 THEN <<>>
    ELSE Fragments(fields, n - 1, trimmed)
         \o (IF n - 1 = parser.title_column_index.v THEN <<>>
             ELSE (IF trimmed THEN TrimmedLabel(n - 1) ELSE ColumnLabel(n - 1))
                  \o <<":", " ">> \o fields[n] \o <<"\n", "\n">>)

C10_CombineDescriptionPresent ==
    (IsCsv /\ args.combine_remaining /\ pc \in {"csv_stream", "done"}) =>
        \A k \in 1..Len(issues) :
            /\ issues[k].description.some
            /\ Len(DataRowAt(k).fields) = 1 => issues[k].description = Some(<<>>)

\* a one-column file in combine mode produced a record
C10_Witness ==
    /\ IsCsv /\ args.combine_remaining /\ pc = "done" /\ result.kind = "ok"
    /\ Len(result.issues) >= 1
    /\ Len(DataRowAt(1).fields) = 1
    /\ result.issues[1].description = Some(<<>>)

(***************************************************************************)
(* C11: with combine_remaining set the description selector has no effect  *)
(* on what get_issues returns: the call returns what it returns for the    *)
(* same file and arguments without a description name and index.           *)
(***************************************************************************)
WithoutDescriptionSelector(a) ==
    [a EXCEPT !.description_key = None, !.description_column_index = None]

C11_CombineIgnoresDescriptionSelector ==
    (args.combine_remaining /\ pc = "done") =>
        result = get_issues(New(WithoutDescriptionSelector(args)), file)

(***************************************************************************)
(* C12: the JSON path accepts two root shapes.  A root object gives one    *)
(* record; a root array whose elements are all objects gives one record    *)
(* per element, none for the empty array; a scalar or null root, and an    *)
(* array that holds a non-object element at any position, end the call     *)
(* with the format error.  (A title key is configured and the objects      *)
(* read before the call ends hold no nested value.)                        *)
(***************************************************************************)
FormatError == Err("Json data is not of a format that can be parsed")

\* positions of the elements of a root array that are not objects
NonObjectItems == {i \in 1..Len(file.items) : file.items[i].kind # "object"}

\* the objects the call converts before it ends: all of them, or those before
\* the first element that is not an object
ObjectsRead ==
    IF file.kind = "object" THEN {file.entries}
    ELSE IF file.kind = "array"
    THEN {file.items[i].entries :
            i \in {j \in 1..Len(file.items) :
                     NonObjectItems # {} => j < MinOf(NonObjectItems)}}
    ELSE {}

C12_JsonRootShapes ==
    (/\ IsJson /\ pc = "done" /\ args.title_key.some
     /\ file.kind \notin {"unreadable", "malformed"}
     /\ \A es \in ObjectsRead : ~HasNested(es))
    => CASE file.kind = "object" -> result.kind = "ok" /\ Len(result.issues) = 1
         [] file.kind = "array" /\ NonObjectItems = {} ->
                result.kind = "ok" /\ Len(result.issues) = Len(file.items)
         [] OTHER -> result = FormatError

\* an array whose second element is not an object ended with the format error
C12_Witness ==
    /\ IsJson /\ pc = "done" /\ args.title_key.some
    /\ file.kind = "array" /\ Len(file.items) = 2
    /\ file.items[1].kind = "object" /\ file.items[1].entries # <<>>
    /\ ~HasNested(file.items[1].entries)
    /\ file.items[2].kind # "object"
    /\ result = FormatError

(***************************************************************************)
(* C13: on the JSON path every entry of an object is converted to text     *)
(* before its key is looked at: a string is itself, a boolean or number    *)
(* its literal text, null the text "null"; a nested object or array under  *)
(* any key, also one that is neither the title nor the description key     *)
(* with combine off, ends the call with an error.                          *)
(***************************************************************************)
\* the text of a scalar value, written out
ExpectedText(v) ==
    CASE v.kind = "string" -> v.s
      [] v = JBool(TRUE) -> <<"t", "r", "u", "e">>
      [] v = JBool(FALSE) -> <<"f", "a", "l", "s", "e">>
      [] v = JNumber(7) -> <<"7">>
      [] v = JNull -> <<"n", "u", "l", "l">>

\* positions of the entries whose key is key up to letter case
KeyMatches(es, key) == {i \in 1..Len(es) : to_lowercase(es[i].key) = to_lowercase(key)}

\* the k-th object of the document
ObjectAt(k) == IF file.kind = "object" THEN file.entries ELSE file.items[k].entries

C13_EveryValueStringified ==
    (IsJson /\ pc = "done" /\ args.title_key.some) =>
        /\ (\E es \in ObjectsRead : HasNested(es)) =>
               result = Err("Title is not a string")
        /\ result.kind = "ok" =>
               \A k \in 1..Len(result.issues) :
                  LET m == KeyMatches(ObjectAt(k), args.title_key.v)
                  IN  m # {} =>
                        result.issues[k].title = ExpectedText(ObjectAt(k)[MaxOf(m)].value)

\* a nested value under a key that is neither selector, combine off
C13_Witness ==
    /\ IsJson /\ pc = "done" /\ args.title_key.some
    /\ ~args.combine_remaining /\ args.description_key = None
    /\ file.kind = "object" /\ Len(file.entries) = 2
    /\ file.entries[1] = [key |-> <<"t">>, value |-> JNull]
    /\ file.entries[2] = [key |-> <<" ", "d">>, value |-> JArray(<<>>)]
    /\ result = Err("Title is not a string")

(***************************************************************************)
(* C14: on the JSON path without combine, each key equal to the            *)
(* description key up to letter case replaces the description, so that a   *)
(* record's description is the value of the last such key of its object;   *)
(* with no such key the record has no description and the call does not    *)
(* fail.                                                                   *)
(***************************************************************************)
\* the document is an object or an array of objects, none with a nested value
ConvertibleDocument ==
    /\ file.kind = "object" \/ (file.kind = "array" /\ NonObjectItems = {})
    /\ \A es \in ObjectsRead : ~HasNested(es)

\* the description of a record is the text of the last entry among m, if any
DescriptionIsLastOf(k, m) ==
    result.issues[k].description =
        IF m = {} THEN None ELSE Some(ExpectedText(ObjectAt(k)[MaxOf(m)].value))

\* as stated: every key equal to the description key counts
C14_LastDescriptionKeyWins ==
    (/\ IsJson /\ pc = "done" /\ args.title_key.some /\ ~args.combine_remaining
     /\ ConvertibleDocument)
    => /\ result.kind = "ok"
       /\ \A k \in 1..Len(result.issues) :
            DescriptionIsLastOf(k, IF args.description_key.some
                                   THEN KeyMatches(ObjectAt(k), args.description_key.v)
                                   ELSE {})

\* C14 as amended: a key that is also equal to the title key sets the title
\* and not the description
C14_LastOtherDescriptionKeyWins ==
    (/\ IsJson /\ pc = "done" /\ args.title_key.some /\ ~args.combine_remaining
     /\ ConvertibleDocument)
    => /\ result.kind = "ok"
       /\ \A k \in 1..Len(result.issues) :
            DescriptionIsLastOf(k, IF args.description_key.some
                                   THEN KeyMatches(ObjectAt(k), args.description_key.v)
                                        \ KeyMatches(ObjectAt(k), args.title_key.v)
                                   ELSE {})

\* two keys equal to the description key: the second one gave the description
C14_Witness ==
    /\ IsJson /\ pc = "done" /\ ~args.combine_remaining
    /\ args.title_key = Some(<<"t">>) /\ args.description_key = Some(<<" ", "D">>)
    /\ file.kind = "object" /\ Len(file.entries) = 2
    /\ file.entries[1] = [key |-> <<" ", "D">>, value |-> JString(<<"s">>)]
    /\ file.entries[2] = [key |-> <<" ", "d">>, value |-> JNumber(7)]
    /\ result = Ok(<<IssueFromFile(<<>>, Some(<<"7">>))>>)

(***************************************************************************)
(* C15: a JSON object without a key equal to the title key up to letter    *)
(* case still yields a record, with the empty title; the missing title     *)
(* does not make get_issues fail.                                          *)
(***************************************************************************)
C15_MissingTitleIsEmpty ==
    (IsJson /\ pc = "done" /\ args.title_key.some /\ ConvertibleDocument)
    => /\ result.kind = "ok"
       /\ Len(result.issues) = IF file.kind = "object" THEN 1 ELSE Len(file.items)
       /\ \A k \in 1..Len(result.issues) :
            KeyMatches(ObjectAt(k), args.title_key.v) = {} =>
                result.issues[k].title = <<>>

\* an object whose only key is not the title key gave a record
C15_Witness ==
    /\ IsJson /\ pc = "done" /\ args.title_key = Some(<<"t">>)
    /\ file = JObject(<<[key |-> <<" ", "d">>, value |-> JString(<<"s">>)]>>)
    /\ result.kind = "ok" /\ Len(result.issues) = 1
    /\ result.issues[1].title = <<>>

(***************************************************************************)
(* C16: get_issues dispatches on the file extension: "csv" runs the CSV    *)
(* path, "json" the JSON path, and any other extension returns the         *)
(* unsupported-file-type error without reading the file.  The constructor  *)
(* stores the extension in lower case, so "CSV" is "csv".                  *)
(***************************************************************************)
Unsupported == Err("Unsupported file type")

\* what csv_to_issues and json_to_issues can return as an error
CsvErrors ==
    {"Could not read headers", "Could not find column with name",
     "title_column_index is out of bounds", "description_column_index is out of bounds",
     "Could not read record", "Could not get title", "Could not get description"}
JsonErrors ==
    {"Could not read file", "Could not parse json", "Title is not a string",
     "Json data is not of a format that can be parsed"}

C16_DispatchOnExtension ==
    /\ args.extension \in {ExtCsv, ExtCsvUpper} =>
          /\ pc \in {"idle", "csv_resolve", "csv_stream", "done"}
          /\ (pc = "done" /\ result.kind = "err") => result.msg \in CsvErrors
    /\ args.extension = ExtJson =>
          /\ pc \in {"idle", "json_read", "json_stream", "done"}
          /\ (pc = "done" /\ result.kind = "err") => result.msg \in JsonErrors
    /\ args.extension = ExtTxt =>
          /\ pc \in {"idle", "done"}
          /\ pc = "done" =>
                (result = Unsupported /\ reader.pos = 0 /\ reader.yielded = 0 /\ issues = <<>>)

\* a .txt file that holds rows was refused unread
C16_Witness ==
    /\ args.extension = ExtTxt /\ Len(file) >= 2
    /\ pc = "done" /\ result = Unsupported /\ reader.pos = 0

(***************************************************************************)
(* C17: a call of get_issues does not change the parser's configuration:   *)
(* when it has returned, every field of the parser, title_column_index     *)
(* and description_column_index among them, has the value it had before    *)
(* the call.                                                               *)
(***************************************************************************)
C17_ConfigurationUnchanged ==
    (calls = 0 /\ pc = "done" /\ result.kind \in {"ok", "err"}) => parser = New(args)

(***************************************************************************)
(* C18: a successful call returns one record per data row of the CSV file  *)
(* or per object of the JSON document, in input order: the k-th record     *)
(* carries the title of the k-th row or object, none is skipped, repeated  *)
(* or moved.                                                               *)
(***************************************************************************)
\* the title read from the k-th data row, with the configured prefix
RowTitle(k) == PrefixedTitle(DataRowAt(k).fields[parser.title_column_index.v + 1])

\* the title read from the k-th object
ObjectTitle(k) ==
    LET m == KeyMatches(ObjectAt(k), args.title_key.v)
    IN  IF m = {} THEN <<>> ELSE ExpectedText(ObjectAt(k)[MaxOf(m)].value)

C18_OneRecordPerRowInOrder ==
    (calls = 0 /\ pc = "done" /\ result.kind = "ok") =>
        /\ IsCsv =>
              /\ Len(result.issues) = DataRowCount
              /\ \A k \in 1..DataRowCount : result.issues[k].title = RowTitle(k)
        /\ IsJson =>
              /\ Len(result.issues) = IF file.kind = "object" THEN 1 ELSE Len(file.items)
              /\ \A k \in 1..Len(result.issues) : result.issues[k].title = ObjectTitle(k)

\* a header and two data rows gave two records with different titles
C18_Witness ==
    /\ IsCsv /\ ~args.no_header /\ Len(file) = 3
    /\ calls = 0 /\ pc = "done" /\ result.kind = "ok"
    /\ Len(result.issues) = 2
    /\ result.issues[1].title # result.issues[2].title
    /\ result.issues[1].title = RowTitle(1)

(***************************************************************************)
(* C19: with the title selected by index and no header, a CSV call looks   *)
(* up no name and never ends with the name-not-found error, whatever       *)
(* names are configured and whatever the file holds; the configured        *)
(* indexes stay in use.                                                    *)
(***************************************************************************)
C19_NoNameResolutionWithoutHeader ==
    (IsCsv /\ args.no_header /\ args.title_column_index.some) =>
        /\ lookups = {}
        /\ ~NameNotFound
        /\ parser.title_column_index = args.title_column_index
        /\ parser.description_column_index = args.description_column_index

\* both names configured, no header: the call returned records
C19_Witness ==
    /\ IsCsv /\ args.no_header /\ args.title_column_index.some
    /\ args.title_key.some /\ args.description_key.some /\ ~args.combine_remaining
    /\ pc = "done" /\ result.kind = "ok" /\ Len(result.issues) >= 2

(***************************************************************************)
(* C20: combine mode is deterministic: a further call of get_issues on     *)
(* the same parser and file returns records with the same descriptions     *)
(* as the call before, record by record, and fails when it failed.         *)
(***************************************************************************)
C20_CombineRepeatable ==
    (args.combine_remaining /\ calls >= 1 /\ pc = "done") =>
        /\ result.kind = prev.kind
        /\ result.kind = "err" => (result.msg = prev.msg /\ result.name = prev.name)
        /\ Len(result.issues) = Len(prev.issues)
        /\ \A k \in 1..Len(result.issues) :
              result.issues[k].description = prev.issues[k].description

\* a second call on a parser that stored a resolved title index gave the
\* same two descriptions
C20_Witness ==
    /\ IsCsv /\ args.combine_remaining /\ calls = 1 /\ pc = "done"
    /\ parser # New(args)
    /\ result.kind = "ok" /\ Len(result.issues) = 2
    /\ result.issues[1].description.some
    /\ Len(result.issues[1].description.v) > 0
    /\ result.issues[1].description = prev.issues[1].description
    /\ result.issues[2].description = prev.issues[2].description

(***************************************************************************)
(* C21: whatever calls of get_issues came before and however the file      *)
(* changed between them, a call returns what a parser freshly constructed  *)
(* from the original arguments returns on the file as it is now; an index  *)
(* resolved from a header name by an earlier call is not used once the     *)
(* header no longer holds that name.                                       *)
(***************************************************************************)
C21_CallsEqualFreshParser ==
    pc = "done" => result = get_issues(New(args), file)

(***************************************************************************)
(* C22: with no_header set no row is consumed as a header: the first row   *)
(* of the file gives the first record and a successful call returns as     *)
(* many records as the file has rows; the title index and the description  *)
(* index are checked against the field count of the first row before any   *)
(* record is built.  (A title index is configured and the first row is     *)
(* readable.)                                                              *)
(***************************************************************************)
FirstRowLen == Len(file[1].fields)

C22_NoHeaderFirstRowIsRecord ==
    (/\ IsCsv /\ args.no_header /\ args.title_column_index.some
     /\ file # <<>> /\ file[1].ok /\ calls = 0)
    => /\ (pc = "done" /\ result.kind = "ok") =>
             /\ Len(result.issues) = Len(file)
             /\ result.issues[1].title =
                    PrefixedTitle(file[1].fields[args.title_column_index.v + 1])
       /\ (Resolved /\ args.title_column_index.v >= FirstRowLen) =>
             /\ pc = "done" /\ issues = <<>> /\ reader.yielded = 0
             /\ result = Err("title_column_index is out of bounds")
       /\ (/\ Resolved /\ args.title_column_index.v < FirstRowLen
           /\ args.description_column_index.some
           /\ args.description_column_index.v >= FirstRowLen) =>
             /\ pc = "done" /\ issues = <<>> /\ reader.yielded = 0
             /\ result = Err("description_column_index is out of bounds")
       /\ OutOfBounds =>
             \/ args.title_column_index.v >= FirstRowLen
             \/ /\ args.description_column_index.some
                /\ args.description_column_index.v >= FirstRowLen

\* three rows without a header gave three records, the first from the first row
C22_Witness ==
    /\ IsCsv /\ args.no_header /\ args.title_column_index = Some(0)
    /\ Len(file) = 3 /\ calls = 0
    /\ pc = "done" /\ result.kind = "ok" /\ Len(result.issues) = 3
    /\ result.issues[1].title = PrefixedTitle(<<"a", "0">>)

(***************************************************************************)
(* C23: in JSON combine mode a record has no description exactly when its  *)
(* object has no key other than keys equal to the title key up to letter   *)
(* case; otherwise the description is the concatenation, in iteration      *)
(* order, of "<key>: <value>\n\n" for every other key.  A key equal to     *)
(* the title key contributes no fragment.                                  *)
(***************************************************************************)
\* a key without its leading blank, written out for the keys of JsonKeys
KeyWithoutBlank(k) == IF k[1] = " " THEN Tail(k) ELSE k

\* the fragments of the entries 1..n that are not title keys
RECURSIVE ObjectFragments(_, _, _)
ObjectFragments(es, n, trimmed) ==
    IF n = 0 THEN <<>>
    ELSE ObjectFragments(es, n - 1, trimmed)
         \o (IF n \in KeyMatches(es, args.title_key.v) THEN <<>>
             ELSE (IF trimmed THEN KeyWithoutBlank(es[n].key) ELSE es[n].key)
                  \o <<":", " ">> \o ExpectedText(es[n].value) \o <<"\n", "\n">>)

CombinedDescription(es, trimmed) ==
    IF KeyMatches(es, args.title_key.v) = 1..Len(es) THEN None
    ELSE Some(ObjectFragments(es, Len(es), trimmed))

\* as stated: the key as it is in the object
C23_JsonCombineUsesKey ==
    (/\ IsJson /\ pc = "done" /\ args.title_key.some /\ args.combine_remaining
     /\ result.kind = "ok")
    => \A k \in 1..Len(result.issues) :
          result.issues[k].description = CombinedDescription(ObjectAt(k), FALSE)

\* C23 as amended: the key with leading and trailing whitespace trimmed
C23_JsonCombineUsesTrimmedKey ==
    (/\ IsJson /\ pc = "done" /\ args.title_key.some /\ args.combine_remaining
     /\ result.kind = "ok")
    => \A k \in 1..Len(result.issues) :
          result.issues[k].description = CombinedDescription(ObjectAt(k), TRUE)

\* the key " d" after the title key: title s, description "d: 7\n\n"
C23_Witness ==
    /\ IsJson /\ pc = "done" /\ args.title_key = Some(<<"t">>) /\ args.combine_remaining
    /\ file = JObject(<<[key |-> <<"T">>, value |-> JString(<<"s">>)],
                        [key |-> <<" ", "d">>, value |-> JNumber(7)]>>)
    /\ result = Ok(<<IssueFromFile(<<"s">>, Some(<<"d", ":", " ", "7", "\n", "\n">>))>>)

(***************************************************************************)
(* C24: on the JSON path, when several keys of an object are equal to the  *)
(* title key up to letter case, the record's title is the value of the     *)
(* last of them in iteration order; a key equal to both the title key and  *)
(* the description key gives the title only and never the description.     *)
(***************************************************************************)
C24_LastTitleKeyWins ==
    (IsJson /\ pc = "done" /\ args.title_key.some /\ result.kind = "ok") =>
        \A k \in 1..Len(result.issues) :
            /\ result.issues[k].title = ObjectTitle(k)
            /\ (/\ ~args.combine_remaining /\ args.description_key.some
                /\ KeyMatches(ObjectAt(k), args.description_key.v)
                      \subseteq KeyMatches(ObjectAt(k), args.title_key.v))
               => result.issues[k].description = None

\* the keys T and t, both equal to the title key t and the description key T
C24_Witness ==
    /\ IsJson /\ pc = "done" /\ ~args.combine_remaining
    /\ args.title_key = Some(<<"t">>) /\ args.description_key = Some(<<"T">>)
    /\ file = JObject(<<[key |-> <<"T">>, value |-> JString(<<"s">>)],
                        [key |-> <<"t">>, value |-> JNumber(7)]>>)
    /\ result = Ok(<<IssueFromFile(<<"7">>, None)>>)

====
